---- MODULE Spec2Model ----
(***************************************************************************)
(* Token lifecycle of simple-auth-jwt: login, logout and token refresh     *)
(* handlers (app/api/v1/auth.py), the request verifiers                    *)
(* (dependencies/auth.py) and the refresh token table (db/crud).           *)
(*                                                                         *)
(* Every request runs in its own database session.  The statements of a    *)
(* session are collected in the session's pending list and reach the       *)
(* committed table at commit; a rollback discards them.  The handlers      *)
(* suspend at every database call, so each database call is one step and   *)
(* requests interleave between them.                                       *)
(***************************************************************************)
EXTENDS Integers, Sequences, FiniteSets, TLC

\* ------------------------------------------------------------------ bounds
\* Number of requests of one behaviour (each slot serves one request).
MaxReq == 3
\* The clock runs from 0 to MaxTime (whole seconds, as the token timestamps).
MaxTime == 2
\* Number of principals in the users table.
NUsers == 1

\* -------------------------------------------------------- program constants
\* Lifetime of an access token ("10 minutes"), in clock ticks of the model.
jwt_access_token_expire == 1
\* Lifetime of a refresh token ("7 days"), in clock ticks of the model.
jwt_refresh_token_expire == 2

HTTP_401_UNAUTHORIZED == 401
HTTP_404_NOT_FOUND == 404
HTTP_500_INTERNAL_SERVER_ERROR == 500
HTTP_200_OK == 200

Users == 1..NUsers
Slots == 1..MaxReq
Time == 0..MaxTime

\* ------------------------------------------------------------- conversions
\* str(user.id) and int(token.sub): the subject claim is the decimal text of
\* the user id.
StrOf(n) == <<"str", n>>
IntOf(s) == s[2]

\* AESCipher.encrypt / decrypt: a reversible wrapping of the plaintext.
Encrypt(x) == [cipher |-> x]
Decrypt(c) == c.cipher

\* Hasher.hmac_sha256: a deterministic one-way tag of the message.
HmacSha256(x) == [hmac |-> x]

\* ------------------------------------------------------------------ tokens
\* A signed token: its claims (sub, iat, exp), the key it verifies under
\* (sig) and whether its claims fit the TokenUser schema.
NoToken == [typ |-> "none", sub |-> StrOf(0), iat |-> 0, exp |-> 0, sig |-> "none", claims |-> "none"]

\* create_new_jwt_token(sub): an access token and a refresh token that share
\* iat; the expiries are the current time plus the configured lifetimes.
\* The signature is a function of the claims and the key.
AccessToken(sub, t) ==
    [typ |-> "access", sub |-> sub, iat |-> t, exp |-> t + jwt_access_token_expire,
     sig |-> "ok", claims |-> "ok"]

RefreshToken(sub, t) ==
    [typ |-> "refresh", sub |-> sub, iat |-> t, exp |-> t + jwt_refresh_token_expire,
     sig |-> "ok", claims |-> "ok"]

create_new_jwt_token(sub, t) ==
    [access_token |-> AccessToken(sub, t),
     refresh_token |-> RefreshToken(sub, t),
     iat |-> t,
     access_token_expires_in |-> t + jwt_access_token_expire,
     refresh_token_expires_in |-> t + jwt_refresh_token_expire]

NoPair == [access_token |-> NoToken, refresh_token |-> NoToken, iat |-> 0,
           access_token_expires_in |-> 0, refresh_token_expires_in |-> 0]

\* A token signed with another key, and a token of this key whose claims do
\* not fit the schema: what a client can present without having been issued it.
ForgedToken(u, t) == [AccessToken(StrOf(u), t) EXCEPT !.sig = "bad"]
CorruptToken(u, t) == [AccessToken(StrOf(u), t) EXCEPT !.claims = "corrupt"]
\* A string that is not a JWT at all.
MalformedToken == [typ |-> "access", sub |-> StrOf(0), iat |-> 0, exp |-> 0, sig |-> "malformed", claims |-> "none"]
BogusRefresh == [typ |-> "refresh", sub |-> StrOf(0), iat |-> 0, exp |-> 0, sig |-> "bad", claims |-> "ok"]

\* ---------------------------------------------------------------- verifier
NoUser == [sub |-> StrOf(0), access_token |-> NoToken, refresh_token |-> NoToken]

\* jwt.decode under a key the issuer did not sign with (faulty variant).
jwt_decode_WrongKey(token, verify_exp, t) ==
    IF token.sig # "bad" THEN "JWTError"
    ELSE IF verify_exp /\ token.exp < t THEN "ExpiredSignatureError"
    ELSE "payload"

\* jose jwt.decode: the signature is verified first, then the exp claim
\* unless verify_exp is off (expired when the current time is past exp).
jwt_decode(token, verify_exp, t) ==
    IF token.sig # "ok" THEN "JWTError"
    ELSE IF verify_exp /\ token.exp < t THEN "ExpiredSignatureError"
    ELSE "payload"

\* The body shared by the four verifiers: decode, then build the TokenUser.
Decode(access_token, refresh_token, verify_exp, t) ==
    LET d == jwt_decode(access_token, verify_exp, t) IN
    IF d = "ExpiredSignatureError" THEN [res |-> "TokenExpired", user |-> NoUser]
    ELSE IF d = "JWTError" THEN [res |-> "CredentialsInvalid", user |-> NoUser]
    ELSE IF access_token.claims # "ok" THEN [res |-> "CredentialsInvalid", user |-> NoUser]
    ELSE [res |-> "Verified",
          user |-> [sub |-> access_token.sub, access_token |-> access_token,
                    refresh_token |-> refresh_token]]

\* AuthorizeCookieUser without the test of the refresh cookie (faulty variant).
AuthorizeCookieUser_AccessOnly(access_token, refresh_token, t) ==
    IF access_token = NoToken
    THEN [res |-> "CredentialsInvalid", user |-> NoUser]
    ELSE Decode(access_token, refresh_token, TRUE, t)

AuthorizeCookieUser(access_token, refresh_token, t) ==
    IF access_token = NoToken \/ refresh_token = NoToken
    THEN [res |-> "CredentialsInvalid", user |-> NoUser]
    ELSE Decode(access_token, refresh_token, TRUE, t)

\* AuthorizeRefreshCookieUser with the expiry check left on (faulty variant).
AuthorizeRefreshCookieUser_VerifyExp(access_token, refresh_token, t) ==
    IF access_token = NoToken \/ refresh_token = NoToken
    THEN [res |-> "CredentialsInvalid", user |-> NoUser]
    ELSE Decode(access_token, refresh_token, TRUE, t)

AuthorizeRefreshCookieUser(access_token, refresh_token, t) ==
    IF access_token = NoToken \/ refresh_token = NoToken
    THEN [res |-> "CredentialsInvalid", user |-> NoUser]
    ELSE Decode(access_token, refresh_token, FALSE, t)

\* str.lower() on the authorization scheme.
Lower(s) ==
    CASE s = "Bearer" -> "bearer"
      [] s = "BEARER" -> "bearer"
      [] s = "Basic" -> "basic"
      [] OTHER -> s

\* get_authorization_scheme_param: the header value split at the first blank
\* into (scheme, param); both are empty when there is no header.  A header is
\* the sequence of its words: <<>>, <<scheme>> or <<scheme, token>>.
get_authorization_scheme_param(authorization) ==
    IF Len(authorization) = 0 THEN [scheme |-> "", token |-> NoToken]
    ELSE IF Len(authorization) = 1 THEN [scheme |-> authorization[1], token |-> NoToken]
    ELSE [scheme |-> authorization[1], token |-> authorization[2]]

\* AuthorizeTokenUser with the expiry check off (faulty variant).
AuthorizeTokenUser_NoExpiry(scheme, token, t) ==
    IF Lower(scheme) # "bearer" \/ token = NoToken
    THEN [res |-> "CredentialsInvalid", user |-> NoUser]
    ELSE Decode(token, NoToken, FALSE, t)

AuthorizeTokenUser(scheme, token, t) ==
    IF Lower(scheme) # "bearer" \/ token = NoToken
    THEN [res |-> "CredentialsInvalid", user |-> NoUser]
    ELSE Decode(token, NoToken, TRUE, t)

\* AuthorizeTokenRefresh with the expiry check left on (faulty variant).
AuthorizeTokenRefresh_VerifyExp(access_token, refresh_token, t) ==
    IF access_token = NoToken \/ refresh_token = NoToken
    THEN [res |-> "CredentialsInvalid", user |-> NoUser]
    ELSE Decode(access_token, refresh_token, TRUE, t)

AuthorizeTokenRefresh(access_token, refresh_token, t) ==
    IF access_token = NoToken \/ refresh_token = NoToken
    THEN [res |-> "CredentialsInvalid", user |-> NoUser]
    ELSE Decode(access_token, refresh_token, FALSE, t)

\* ------------------------------------------------------- refresh token table
\* InsertTokenSchema, as api_login builds it.
InsertTokenSchema(user_id, token) ==
    [user_id |-> user_id,
     access_token |-> token.access_token,
     refresh_token |-> Encrypt(token.refresh_token),
     refresh_token_key |-> HmacSha256(token.refresh_token),
     issued_at |-> token.iat,
     expires_at |-> token.refresh_token_expires_in]

\* UpdateTokenSchema, as api_token_refresh builds it.
UpdateTokenSchema(token, new_token) ==
    [user_id |-> IntOf(token.sub),
     old_access_token |-> token.access_token,
     new_access_token |-> new_token.access_token,
     refresh_token_key |-> HmacSha256(new_token.refresh_token),
     refresh_token |-> Encrypt(new_token.refresh_token),
     expires_at |-> new_token.refresh_token_expires_in]

Matches(row, user_id, access_token) ==
    row.user_id = user_id /\ row.access_token = access_token

\* RefreshTokenDAL.insert: a plain INSERT of the row.
DalInsert(table, row) == Append(table, row)

\* RefreshTokenDAL.exists(user_id, access_token).
DalExists(table, user_id, access_token) ==
    \E k \in 1..Len(table) : Matches(table[k], user_id, access_token)

\* RefreshTokenDAL.get(user_id, access_token): the first matching row, or none.
NoRow == [user_id |-> 0, access_token |-> NoToken, refresh_token |-> Encrypt(NoToken),
          refresh_token_key |-> HmacSha256(NoToken), issued_at |-> 0, expires_at |-> 0]

DalGet(table, user_id, access_token) ==
    LET hits == SelectSeq(table, LAMBDA r : Matches(r, user_id, access_token)) IN
    IF hits = <<>> THEN NoRow ELSE Head(hits)

\* RefreshTokenDAL.update: one UPDATE statement keyed by the old access token.
DalUpdate(table, u) ==
    [k \in 1..Len(table) |->
        IF Matches(table[k], u.user_id, u.old_access_token)
        THEN [table[k] EXCEPT !.access_token = u.new_access_token,
                              !.refresh_token = u.refresh_token,
                              !.refresh_token_key = u.refresh_token_key,
                              !.expires_at = u.expires_at]
        ELSE table[k]]

\* RefreshTokenDAL.delete(user_id, access_token).
DalDelete(table, user_id, access_token) ==
    SelectSeq(table, LAMBDA r : ~Matches(r, user_id, access_token))

\* RefreshTokenDAL.delete_by_user_id(user_id): every row of the user.
delete_by_user_id(table, user_id) ==
    SelectSeq(table, LAMBDA r : r.user_id # user_id)

\* ------------------------------------------------------------------- state
VARIABLES
    now,         \* the clock, in whole seconds
    table,       \* the committed rows of the token table, in insertion order
    last_login,  \* users table: time of the last committed login, -1 if none
    req          \* the requests: inputs, position in the handler, session, response

vars == <<now, table, last_login, req>>

\* response.set_cookie(key, value, httponly=True[, max_age]): the cookies of a
\* response are the set of these; a cookie set without max_age has NoMaxAge.
NoMaxAge == -1
SetCookie(key, value, max_age) ==
    [key |-> key, value |-> value, httponly |-> TRUE, max_age |-> max_age]

NoResp == [err |-> "pending", status |-> 0, message |-> "",
           access_token |-> NoToken, refresh_token |-> NoToken, cookies |-> FALSE,
           set_cookie |-> {}]

\* JSONResponse({'message': message}, status_code=status)
JSONResponse(err, status, message) ==
    [NoResp EXCEPT !.err = err, !.status = status, !.message = message]

\* The token pair in the body (API) or in two httpOnly cookies (web).
TokenResponse(flow, message, access_token, refresh_token) ==
    [err |-> "ok", status |-> HTTP_200_OK, message |-> message,
     access_token |-> access_token, refresh_token |-> refresh_token,
     cookies |-> (flow = "web"),
     set_cookie |-> IF flow = "web"
                    THEN {SetCookie("access_token", access_token, NoMaxAge),
                          SetCookie("refresh_token", refresh_token, NoMaxAge)}
                    ELSE {}]

\* The success response of a logout that leaves the cookies alone (faulty
\* variant).
LogoutResponse_KeepsCookies(flow) ==
    [TokenResponse(flow, "logout success", NoToken, NoToken) EXCEPT !.set_cookie = {}]

\* The success response of a logout: a message, and in web_logout both
\* cookies set to the empty value with max_age 0.
LogoutResponse(flow) ==
    [TokenResponse(flow, "logout success", NoToken, NoToken) EXCEPT
        !.set_cookie = IF flow = "web"
                       THEN {SetCookie("access_token", NoToken, 0),
                             SetCookie("refresh_token", NoToken, 0)}
                       ELSE {}]

\* credentials_exception and token_expired_exception, raised to the framework.
credentials_exception == JSONResponse("CredentialsInvalid", HTTP_401_UNAUTHORIZED, "credentials")
token_expired_exception == JSONResponse("TokenExpired", HTTP_401_UNAUTHORIZED, "expired")
\* An exception no handler catches: the framework answers 500.
unhandled_exception == JSONResponse("Unhandled", HTTP_500_INTERNAL_SERVER_ERROR, "Internal Server Error")

VerifierResponse(v) ==
    IF v.res = "TokenExpired" THEN token_expired_exception ELSE credentials_exception

NoInput == [access_token |-> NoToken, refresh_token |-> NoToken, scheme |-> "none"]

\* at: the time at which the verifier of the request was evaluated, recorded
\* where a verifier is applied on its own.
Idle == [op |-> "none", flow |-> "none", pc |-> "idle", user_id |-> 0, at |-> 0,
         is_login |-> FALSE, presented |-> NoInput, token |-> NoUser, new_token |-> NoPair, row |-> NoRow, after |-> {}, pending |-> <<>>, discarded |-> 0,
         session |-> "none", closed |-> FALSE, resp |-> NoResp]

Init ==
    /\ now = 0
    /\ table = <<>>
    /\ last_login = [u \in Users |-> -1]
    /\ req = [i \in Slots |-> Idle]

\* ----------------------------------------------------------------- session
\* The effect of one pending statement on the committed table.
ApplyStatement(t, s) ==
    CASE s.stmt = "insert" -> DalInsert(t, s.row)
      [] s.stmt = "update" -> DalUpdate(t, s.update)
      [] s.stmt = "delete" -> DalDelete(t, s.user_id, s.access_token)
      [] s.stmt = "delete_by_user_id" -> delete_by_user_id(t, s.user_id)
      [] OTHER -> t

RECURSIVE ApplyAll(_, _)
ApplyAll(t, pending) ==
    IF pending = <<>> THEN t
    ELSE ApplyAll(ApplyStatement(t, Head(pending)), Tail(pending))

RECURSIVE ApplyLastLogin(_, _)
ApplyLastLogin(ll, pending) ==
    IF pending = <<>> THEN ll
    ELSE LET s == Head(pending) IN
         ApplyLastLogin(IF s.stmt = "last_login"
                        THEN [ll EXCEPT ![s.user_id] = s.at_time] ELSE ll,
                        Tail(pending))

\* session.commit(): the pending statements reach the committed state.
Commit(t, pending) == ApplyAll(t, pending)

\* A rollback that lets the pending statements through (faulty variant).
Rollback_Applies(t, pending) == ApplyAll(t, pending)

\* session.rollback(): the pending statements are discarded.
Rollback(t, pending) == t

\* session.rollback() and session.close() of an except/finally branch.
RolledBack(r, resp) ==
    [r EXCEPT !.pc = "done", !.pending = <<>>, !.session = "rolled_back",
              !.closed = TRUE, !.resp = resp]

\* The tokens clients hold: the pairs of the success responses so far.
KnownAccess == {req[i].resp.access_token : i \in {j \in DOMAIN req : req[j].resp.err = "ok" /\ req[j].resp.access_token # NoToken}}
KnownRefresh == {req[i].resp.refresh_token : i \in {j \in DOMAIN req : req[j].resp.err = "ok" /\ req[j].resp.refresh_token # NoToken}}

\* What a client presents as an access token and as a refresh token: a token
\* it was given, or one it made up.
PresentedAccess == KnownAccess \cup {ForgedToken(1, 0)}
PresentedRefresh == KnownRefresh \cup {BogusRefresh}

\* A request arrives in the next free slot.
Free(i) == req[i].op = "none" /\ (IF i = 1 THEN TRUE ELSE req[i-1].op # "none")

\* The requests that have been answered.
Done == {j \in Slots : req[j].pc = "done"}

Arrive(op, flow) ==
    [Idle EXCEPT !.op = op, !.flow = flow, !.session = "open", !.after = Done]

\* The verifier raised: the handler body never runs.
Rejected(r, v) ==
    [r EXCEPT !.pc = "done", !.session = "none", !.resp = VerifierResponse(v)]

\* -------------------------------------------------------------------- login
\* LoginBody without the test of authenticate's result (faulty variant).
LoginBody_NoAuthCheck(r, fault, t) ==
    IF fault
    THEN [r EXCEPT !.pc = "done", !.resp = unhandled_exception]
    ELSE [r EXCEPT !.pc = "insert",
                   !.new_token = create_new_jwt_token(StrOf(r.user_id), t)]

\* api_login / web_login up to the first write, for the request r: the
\* principal lookup (fault: it raises), authenticate, create_new_jwt_token.
LoginBody(r, fault, t) ==
    IF fault
    THEN [r EXCEPT !.pc = "done", !.resp = unhandled_exception]
    ELSE IF ~r.is_login
    THEN [r EXCEPT !.pc = "done",
                   !.resp = JSONResponse("Unauthorized", HTTP_401_UNAUTHORIZED,
                                         "Incorrect username or password.")]
    ELSE [r EXCEPT !.pc = "insert",
                   !.new_token = create_new_jwt_token(StrOf(r.user_id), t)]

LoginRequest(i, flow) ==
    /\ Free(i)
    /\ \E u \in Users, is_login \in BOOLEAN, fault \in BOOLEAN :
         req' = [req EXCEPT ![i] =
            LoginBody([Arrive("login", flow) EXCEPT !.user_id = u, !.is_login = is_login],
                      fault, now)]
    /\ UNCHANGED <<now, table, last_login>>

api_login(i) == LoginRequest(i, "api")
web_login(i) == LoginRequest(i, "web")

\* The except branch of a login; discarded counts the statements the rollback drops.
LoginFailed(r) ==
    [RolledBack(r, JSONResponse("StorageFailure", HTTP_500_INTERNAL_SERVER_ERROR,
                                "Failed to select/insert data"))
        EXCEPT !.discarded = Len(r.pending)]

\* r_token_dal.insert(insert_refresh_token)
LoginInsert(i) ==
    /\ req[i].op = "login" /\ req[i].pc = "insert"
    /\ \E ok \in BOOLEAN :
         req' = [req EXCEPT ![i] =
            IF ok
            THEN [@ EXCEPT !.pc = "last_login",
                           !.pending = Append(@, [stmt |-> "insert",
                               row |-> InsertTokenSchema(req[i].user_id, req[i].new_token)])]
            ELSE LoginFailed(@)]
    /\ UNCHANGED <<now, table, last_login>>

\* user_dal.update_last_login(user_id, login_ip)
LoginLastLogin(i) ==
    /\ req[i].op = "login" /\ req[i].pc = "last_login"
    /\ \E ok \in BOOLEAN :
         req' = [req EXCEPT ![i] =
            IF ok
            THEN [@ EXCEPT !.pc = "commit",
                           !.pending = Append(@, [stmt |-> "last_login",
                               user_id |-> req[i].user_id, at_time |-> now])]
            ELSE LoginFailed(@)]
    /\ UNCHANGED <<now, table, last_login>>

\* session.commit() of a login and the response.
LoginCommit(i) ==
    /\ req[i].op = "login" /\ req[i].pc = "commit"
    /\ \E ok \in BOOLEAN :
         IF ok
         THEN /\ table' = Commit(table, req[i].pending)
              /\ last_login' = ApplyLastLogin(last_login, req[i].pending)
              /\ req' = [req EXCEPT ![i] =
                    [@ EXCEPT !.pc = "done", !.pending = <<>>, !.session = "committed",
                              !.closed = TRUE,
                              !.resp = TokenResponse(req[i].flow, "login success",
                                           req[i].new_token.access_token,
                                           req[i].new_token.refresh_token)]]
         ELSE /\ table' = Rollback(table, req[i].pending)
              /\ last_login' = last_login
              /\ req' = [req EXCEPT ![i] = LoginFailed(@)]
    /\ UNCHANGED now

\* ------------------------------------------------------------------- logout
LogoutFailed(r) ==
    RolledBack(r, JSONResponse("StorageFailure", HTTP_404_NOT_FOUND,
                   IF r.flow = "api" THEN "Invalid Refresh Token" ELSE "Token Expired fail"))

\* A logout that answers success when no row exists (faulty variant).
LogoutNotFound_AsSuccess(r) ==
    [r EXCEPT !.pc = "done", !.closed = TRUE,
              !.resp = TokenResponse(r.flow, "logout success", NoToken, NoToken)]

\* 'user token not found': a plain Exception in api_logout, a ValueError in
\* web_logout.
LogoutNotFound(r) ==
    RolledBack(r, JSONResponse("TokenNotFound", HTTP_404_NOT_FOUND,
                   IF r.flow = "api" THEN "Invalid Refresh Token" ELSE "user token not found"))

\* The verifier of the route, then token_dal.exists(user_id, access_token).
LogoutRequest(i, flow) ==
    /\ Free(i)
    /\ \E a \in PresentedAccess,
          rt \in (IF flow = "web" THEN PresentedRefresh ELSE {NoToken}),
          scheme \in (IF flow = "api" THEN {"bearer"} ELSE {"cookie"}),
          fault \in BOOLEAN :
         LET v == IF flow = "api" THEN AuthorizeTokenUser(scheme, a, now)
                                  ELSE AuthorizeCookieUser(a, rt, now)
             r == [Arrive("logout", flow) EXCEPT !.token = v.user,
                      !.presented = [access_token |-> a, refresh_token |-> rt, scheme |-> scheme]]
         IN
         req' = [req EXCEPT ![i] =
            IF v.res # "Verified" THEN Rejected(r, v)
            ELSE IF fault THEN LogoutFailed(r)
            ELSE IF DalExists(table, IntOf(v.user.sub), v.user.access_token)
            THEN [r EXCEPT !.pc = "delete"]
            ELSE LogoutNotFound(r)]
    /\ UNCHANGED <<now, table, last_login>>

api_logout(i) == LogoutRequest(i, "api")
web_logout(i) == LogoutRequest(i, "web")

\* A logout that deletes with delete_by_user_id (faulty variant).
DeleteStatement_ByUserId(token) ==
    [stmt |-> "delete_by_user_id", user_id |-> IntOf(token.sub),
     access_token |-> token.access_token]

\* The statement of token_dal.delete(user_id=int(token.sub),
\* access_token=token.access_token).
DeleteStatement(token) ==
    [stmt |-> "delete", user_id |-> IntOf(token.sub), access_token |-> token.access_token]

\* token_dal.delete(user_id, access_token)
LogoutDelete(i) ==
    /\ req[i].op = "logout" /\ req[i].pc = "delete"
    /\ \E ok \in BOOLEAN :
         req' = [req EXCEPT ![i] =
            IF ok
            THEN [@ EXCEPT !.pc = "commit",
                           !.pending = Append(@, DeleteStatement(req[i].token))]
            ELSE LogoutFailed(@)]
    /\ UNCHANGED <<now, table, last_login>>

\* session.commit() of a logout and the response (web: both cookies cleared).
LogoutCommit(i) ==
    /\ req[i].op = "logout" /\ req[i].pc = "commit"
    /\ \E ok \in BOOLEAN :
         IF ok
         THEN /\ table' = Commit(table, req[i].pending)
              /\ req' = [req EXCEPT ![i] =
                    [@ EXCEPT !.pc = "done", !.pending = <<>>, !.session = "committed",
                              !.closed = TRUE,
                              !.resp = LogoutResponse(req[i].flow)]]
         ELSE /\ table' = Rollback(table, req[i].pending)
              /\ req' = [req EXCEPT ![i] = LogoutFailed(@)]
    /\ UNCHANGED <<now, last_login>>

\* ------------------------------------------------------------------ refresh
RefreshFailed(r) ==
    RolledBack(r, JSONResponse("StorageFailure", HTTP_404_NOT_FOUND, "Token Update failed"))

\* The comparison without the refresh token (faulty variant).
RefreshTokenMismatch_NoCompare(token, token_info) ==
    token_info = NoRow

\* The comparison of api_token_refresh: no row, or another refresh token
\* than the decrypted stored one.
RefreshTokenMismatch(token, token_info) ==
    token_info = NoRow \/ token.refresh_token # Decrypt(token_info.refresh_token)

\* A refusal that tells a missing row from another refresh token (faulty
\* variant).
RefreshRefused_TellsWhy(token_info) ==
    IF token_info = NoRow
    THEN JSONResponse("TokenNotFound", HTTP_404_NOT_FOUND, "user token not found")
    ELSE credentials_exception

\* raise credentials_exception: the answer to a refresh without a row or with
\* another refresh token than the row's.
RefreshRefused(token_info) == credentials_exception

\* The lenient verifier of the route, token_dal.get (fault: it raises), the
\* comparison, create_new_jwt_token.
RefreshRequest(i, flow) ==
    /\ Free(i)
    /\ \E a \in PresentedAccess, rt \in PresentedRefresh, fault \in BOOLEAN :
         LET v == IF flow = "api" THEN AuthorizeTokenRefresh(a, rt, now)
                                  ELSE AuthorizeRefreshCookieUser(a, rt, now)
             token == v.user
             token_info == DalGet(table, IntOf(token.sub), token.access_token)
             r == [Arrive("refresh", flow) EXCEPT !.token = token,
                      !.presented = [access_token |-> a, refresh_token |-> rt, scheme |-> "none"]]
         IN
         req' = [req EXCEPT ![i] =
            IF v.res # "Verified" THEN Rejected(r, v)
            ELSE IF fault THEN [r EXCEPT !.pc = "done", !.resp = unhandled_exception]
            ELSE IF RefreshTokenMismatch(token, token_info)
            THEN [r EXCEPT !.pc = "done", !.row = token_info,
                           !.resp = RefreshRefused(token_info)]
            ELSE [r EXCEPT !.pc = "update", !.row = token_info,
                           !.new_token = create_new_jwt_token(token.sub, now)]]
    /\ UNCHANGED <<now, table, last_login>>

api_token_refresh(i) == RefreshRequest(i, "api")
web_token_refresh(i) == RefreshRequest(i, "web")

\* token_dal.update(update_token)
RefreshUpdate(i) ==
    /\ req[i].op = "refresh" /\ req[i].pc = "update"
    /\ \E ok \in BOOLEAN :
         req' = [req EXCEPT ![i] =
            IF ok
            THEN [@ EXCEPT !.pc = "commit",
                           !.pending = Append(@, [stmt |-> "update",
                               update |-> UpdateTokenSchema(req[i].token, req[i].new_token)])]
            ELSE RefreshFailed(@)]
    /\ UNCHANGED <<now, table, last_login>>

\* session.commit() of a refresh and the response.
RefreshCommit(i) ==
    /\ req[i].op = "refresh" /\ req[i].pc = "commit"
    /\ \E ok \in BOOLEAN :
         IF ok
         THEN /\ table' = Commit(table, req[i].pending)
              /\ req' = [req EXCEPT ![i] =
                    [@ EXCEPT !.pc = "done", !.pending = <<>>, !.session = "committed",
                              !.closed = TRUE,
                              !.resp = TokenResponse(req[i].flow, "refresh success",
                                           req[i].new_token.access_token,
                                           req[i].new_token.refresh_token)]]
         ELSE /\ table' = Rollback(table, req[i].pending)
              /\ req' = [req EXCEPT ![i] = RefreshFailed(@)]
    /\ UNCHANGED <<now, last_login>>

\* -------------------------------------------------------------------- clock
Tick ==
    /\ now < MaxTime
    /\ now' = now + 1
    /\ UNCHANGED <<table, last_login, req>>

Next ==
    \/ Tick
    \/ \E i \in Slots :
         \/ api_login(i) \/ web_login(i)
         \/ LoginInsert(i) \/ LoginLastLogin(i) \/ LoginCommit(i)
         \/ api_logout(i) \/ web_logout(i)
         \/ LogoutDelete(i) \/ LogoutCommit(i)
         \/ api_token_refresh(i) \/ web_token_refresh(i)
         \/ RefreshUpdate(i) \/ RefreshCommit(i)

Spec == Init /\ [][Next]_vars

\* ---------------------------------------------------- the verifiers alone
\* The four request verifiers applied on their own to whatever a client can
\* send: one login mints a pair (slot 1), then one verifier is evaluated
\* (slot 2) on a credential drawn from the issued, the stale, the forged, the
\* corrupt, the malformed and the missing.
Minted == {j \in Slots : req[j].new_token # NoPair}
AnyAccess ==
    {NoToken, MalformedToken}
    \cup {req[j].new_token.access_token : j \in Minted}
    \cup {ForgedToken(u, t) : u \in Users, t \in Time}
    \cup {CorruptToken(u, t) : u \in Users, t \in Time}
AnyRefresh ==
    {NoToken, BogusRefresh} \cup {req[j].new_token.refresh_token : j \in Minted}
Schemes == {"Bearer", "bearer", "BEARER", "Basic"}
AnyAuthorization ==
    {<<>>} \cup {<<s>> : s \in Schemes} \cup {<<s, a>> : s \in Schemes, a \in AnyAccess \ {NoToken}}

\* The outcome of a verifier evaluated for the request r at the time t: the
\* exception it raises, or the TokenUser handed to the route.
Evaluated(r, v, t) ==
    IF v.res # "Verified" THEN [Rejected(r, v) EXCEPT !.at = t]
    ELSE [r EXCEPT !.pc = "done", !.session = "none", !.at = t, !.token = v.user,
                   !.resp = [NoResp EXCEPT !.err = "Verified"]]

Depends_AuthorizeTokenUser(i) ==
    /\ Free(i)
    /\ \E authorization \in AnyAuthorization :
         LET p == get_authorization_scheme_param(authorization)
             r == [Arrive("verify", "AuthorizeTokenUser") EXCEPT
                      !.presented = [access_token |-> p.token, refresh_token |-> NoToken,
                                     scheme |-> p.scheme]]
         IN req' = [req EXCEPT ![i] = Evaluated(r, AuthorizeTokenUser(p.scheme, p.token, now), now)]
    /\ UNCHANGED <<now, table, last_login>>

Depends_AuthorizeCookieUser(i) ==
    /\ Free(i)
    /\ \E a \in AnyAccess, rt \in AnyRefresh :
         LET r == [Arrive("verify", "AuthorizeCookieUser") EXCEPT
                      !.presented = [access_token |-> a, refresh_token |-> rt, scheme |-> "cookie"]]
         IN req' = [req EXCEPT ![i] = Evaluated(r, AuthorizeCookieUser(a, rt, now), now)]
    /\ UNCHANGED <<now, table, last_login>>

Depends_AuthorizeRefreshCookieUser(i) ==
    /\ Free(i)
    /\ \E a \in AnyAccess, rt \in AnyRefresh :
         LET r == [Arrive("verify", "AuthorizeRefreshCookieUser") EXCEPT
                      !.presented = [access_token |-> a, refresh_token |-> rt, scheme |-> "cookie"]]
         IN req' = [req EXCEPT ![i] = Evaluated(r, AuthorizeRefreshCookieUser(a, rt, now), now)]
    /\ UNCHANGED <<now, table, last_login>>

Depends_AuthorizeTokenRefresh(i) ==
    /\ Free(i)
    /\ \E a \in AnyAccess, rt \in AnyRefresh :
         LET r == [Arrive("verify", "AuthorizeTokenRefresh") EXCEPT
                      !.presented = [access_token |-> a, refresh_token |-> rt, scheme |-> "body"]]
         IN req' = [req EXCEPT ![i] = Evaluated(r, AuthorizeTokenRefresh(a, rt, now), now)]
    /\ UNCHANGED <<now, table, last_login>>

VerifierNext ==
    \/ Tick
    \/ api_login(1) \/ web_login(1)
    \/ Depends_AuthorizeTokenUser(2) \/ Depends_AuthorizeCookieUser(2)
    \/ Depends_AuthorizeRefreshCookieUser(2) \/ Depends_AuthorizeTokenRefresh(2)

VerifierSpec == Init /\ [][VerifierNext]_vars

\* ------------------------------------------- a session from before the start
\* The service as it is found when a principal logged in one second before
\* the clock starts: the row of that login is stored, its client holds the
\* pair, and the login is the answered request 0.  By the end of the clock the
\* refresh token of that pair is past its expiry.
Resident == NUsers + 1
ResidentIat == -1
ResidentPair == create_new_jwt_token(StrOf(Resident), ResidentIat)

ResidentLogin ==
    [Idle EXCEPT !.op = "login", !.flow = "api", !.pc = "done", !.user_id = Resident,
                 !.is_login = TRUE, !.new_token = ResidentPair,
                 !.session = "committed", !.closed = TRUE,
                 !.resp = TokenResponse("api", "login success",
                                        ResidentPair.access_token, ResidentPair.refresh_token)]

ResidentInit ==
    /\ now = 0
    /\ table = <<InsertTokenSchema(Resident, ResidentPair)>>
    /\ last_login = [u \in Users |-> -1]
    /\ req = [i \in {0} \cup Slots |-> IF i = 0 THEN ResidentLogin ELSE Idle]

\* In these behaviours the storage does not fail and the passwords are right.
NoFault == \A i \in Slots : req[i].resp.err \notin {"StorageFailure", "Unhandled", "Unauthorized"}

ResidentNext ==
    \/ Tick
    \/ \E i \in Slots :
         \/ api_login(i) /\ NoFault'
         \/ web_login(i) /\ NoFault'
         \/ LoginInsert(i) /\ NoFault'
         \/ LoginLastLogin(i) /\ NoFault'
         \/ LoginCommit(i) /\ NoFault'
         \/ api_logout(i) /\ NoFault'
         \/ web_logout(i) /\ NoFault'
         \/ LogoutDelete(i) /\ NoFault'
         \/ LogoutCommit(i) /\ NoFault'
         \/ api_token_refresh(i) /\ NoFault'
         \/ web_token_refresh(i) /\ NoFault'
         \/ RefreshUpdate(i) /\ NoFault'
         \/ RefreshCommit(i) /\ NoFault'

ResidentSpec == ResidentInit /\ [][ResidentNext]_vars

TypeOK ==
    /\ now \in Time
    /\ \A i \in Slots : req[i].pc \in {"idle", "insert", "last_login", "delete", "update", "commit", "done"}

\* =================================================================== claims
\* Number of rows of the table t for (user_id, access_token).
Count(t, user_id, access_token) ==
    Cardinality({k \in 1..Len(t) : Matches(t[k], user_id, access_token)})

\* Request i is answered in this step.
Answers(i) == req[i].pc # "done" /\ req'[i].pc = "done"
\* Request i arrives in this step.
Arrives(i, op) == req[i].op = "none" /\ req'[i].op = op
\* Request i is answered with success in this step.
Succeeds(i, op) == Answers(i) /\ req'[i].op = op /\ req'[i].resp.err = "ok"

\* C1: when a login for user u returns the pair (A, R), the committed table
\* holds exactly one row for (u, A); exists(u, A) is true and get(u, A) is a
\* row whose decrypted refresh token is R.
C1_LoginStoresOneRecord ==
    [][\A i \in Slots : Succeeds(i, "login") =>
          LET u == req'[i].user_id
              A == req'[i].resp.access_token
              R == req'[i].resp.refresh_token
          IN /\ Count(table', u, A) = 1
             /\ DalExists(table', u, A)
             /\ Decrypt(DalGet(table', u, A).refresh_token) = R]_vars

\* The refresh request r minted a pair later than the pair it presented, so
\* the two pairs differ.
NewPair(r) == r.new_token.iat > r.token.access_token.iat

\* C2: when a refresh of (u, A, R) returns the new pair (A2, R2), get(u, A) is
\* empty and get(u, A2) is a row whose decrypted refresh token is R2.
C2_RefreshMovesRecord ==
    [][\A i \in Slots : (Succeeds(i, "refresh") /\ NewPair(req'[i])) =>
          LET u == IntOf(req'[i].token.sub)
              A == req'[i].token.access_token
              A2 == req'[i].resp.access_token
              R2 == req'[i].resp.refresh_token
          IN /\ DalGet(table', u, A) = NoRow
             /\ DalGet(table', u, A2) # NoRow
             /\ Decrypt(DalGet(table', u, A2).refresh_token) = R2]_vars

\* Requests i and j overlapped: neither was answered before the other arrived.
Concurrent(i, j) == i \notin req[j].after /\ j \notin req[i].after

\* C3: of two refresh requests that present the same (user, access token,
\* refresh token) and run concurrently, at most one returns a new pair.
C3_AtMostOneRotation ==
    \A i, j \in Slots :
        (/\ i < j
         /\ req[i].op = "refresh" /\ req[j].op = "refresh"
         /\ req[i].token # NoUser /\ req[i].token = req[j].token
         /\ NewPair(req[i]) /\ NewPair(req[j])
         /\ Concurrent(i, j))
        => ~(req[i].resp.err = "ok" /\ req[j].resp.err = "ok")

\* Request i arrives in this step as a refresh that passes the verifier, reads
\* a stored row for (user, access token), and presents another refresh token
\* than the row's.
MismatchedRefresh(i) ==
    /\ Arrives(i, "refresh")
    /\ req'[i].token # NoUser
    /\ req'[i].resp.err # "Unhandled"
    /\ LET token_info == DalGet(table, IntOf(req'[i].token.sub), req'[i].token.access_token)
       IN token_info # NoRow /\ Decrypt(token_info.refresh_token) # req'[i].token.refresh_token

\* C4: a refresh that presents another refresh token than the stored one ends
\* in CredentialsInvalid, returns no pair and writes nothing: the table is the
\* same before and after, and the session holds no statement.
C4_MismatchLeavesStore ==
    [][\A i \in Slots : MismatchedRefresh(i) =>
          /\ req'[i].pc = "done"
          /\ req'[i].resp.err = "CredentialsInvalid"
          /\ req'[i].resp.access_token = NoToken
          /\ req'[i].resp.refresh_token = NoToken
          /\ req'[i].new_token = NoPair
          /\ req'[i].pending = <<>>
          /\ req'[i].session # "committed"
          /\ table' = table]_vars

\* A refresh has compared a stored row with another presented refresh token
\* and has been answered.
C4_Witness ==
    \E i \in Slots :
        /\ req[i].op = "refresh" /\ req[i].pc = "done"
        /\ req[i].row # NoRow
        /\ Decrypt(req[i].row.refresh_token) # req[i].token.refresh_token
        /\ req[i].resp.err = "CredentialsInvalid"
        /\ table # <<>>

\* C5: once a refresh of (A, R) has returned (A2, R2), a later refresh that
\* presents (A2, R) or (A, R) ends in CredentialsInvalid.
C5_OldRefreshTokenRejected ==
    [][\A i, j \in Slots :
          (/\ req[i].op = "refresh" /\ req[i].pc = "done" /\ req[i].resp.err = "ok"
           /\ Arrives(j, "refresh")
           /\ req'[j].resp.err # "Unhandled"
           /\ req'[j].presented.refresh_token = req[i].token.refresh_token
           /\ req'[j].presented.access_token \in
                 {req[i].resp.access_token, req[i].token.access_token})
          => (req'[j].pc = "done" /\ req'[j].resp.err = "CredentialsInvalid")]_vars

\* Logout j arrives right after logout i was answered: every other request
\* was answered before i arrived, or has not arrived yet.
InARow(i, j) ==
    \A k \in Slots \ {i, j} : req[k].op = "none" \/ k \in req[i].after

\* C6: the first of two logouts in a row with the same valid access token
\* deletes the (user, access token) rows; the second is answered not found
\* (404) and leaves the table as it is.
C6_SecondLogoutNotFound ==
    [][/\ \A i \in Slots : Succeeds(i, "logout") =>
             ~DalExists(table', IntOf(req'[i].token.sub), req'[i].token.access_token)
       /\ \A i, j \in Slots :
             (/\ req[i].op = "logout" /\ req[i].pc = "done" /\ req[i].resp.err = "ok"
              /\ Arrives(j, "logout")
              /\ req'[j].token # NoUser
              /\ req'[j].token.access_token = req[i].token.access_token
              /\ req'[j].resp.err # "StorageFailure"
              /\ InARow(i, j))
             => /\ req'[j].pc = "done"
                /\ req'[j].resp.status = HTTP_404_NOT_FOUND
                /\ req'[j].resp.message =
                      (IF req'[j].flow = "api" THEN "Invalid Refresh Token"
                                               ELSE "user token not found")
                /\ req'[j].session = "rolled_back"
                /\ table' = table]_vars

C6_Witness ==
    \E i, j \in Slots :
        /\ i # j /\ i \in req[j].after
        /\ req[i].op = "logout" /\ req[i].resp.err = "ok"
        /\ req[j].op = "logout" /\ req[j].resp.err = "TokenNotFound"
        /\ req[j].token # NoUser
        /\ req[j].token.access_token = req[i].token.access_token
        /\ \A k \in Slots \ {i, j} : k \in req[i].after

\* Request i arrives in this step as a refresh whose access token is signed,
\* well-formed and past its expiry, and whose refresh token is the one stored
\* for (user, access token).
ExpiredMatchingRefresh(i) ==
    /\ Arrives(i, "refresh")
    /\ req'[i].resp.err # "Unhandled"
    /\ LET A == req'[i].presented.access_token
           R == req'[i].presented.refresh_token
           token_info == DalGet(table, IntOf(A.sub), A)
       IN /\ A.sig = "ok" /\ A.claims = "ok" /\ A.exp < now
          /\ token_info # NoRow /\ Decrypt(token_info.refresh_token) = R

\* The access token of the refresh request r was past its expiry when the
\* request was verified and minted its pair.
ExpiredOnArrival(r) == r.token # NoUser /\ r.token.access_token.exp < r.new_token.iat

\* C7: a refresh with an expired but valid access token and the stored refresh
\* token is accepted and mints a new pair; when its commit succeeds it returns
\* that pair, and the row it finds stored for the old access token is
\* rewritten to the new access token and the new refresh token.
C7_ExpiredAccessRefreshes ==
    [][\A i \in Slots :
          /\ ExpiredMatchingRefresh(i) =>
                /\ req'[i].pc = "update"
                /\ req'[i].new_token = create_new_jwt_token(req'[i].presented.access_token.sub, now)
          /\ (/\ req[i].op = "refresh" /\ req[i].pc = "commit" /\ ExpiredOnArrival(req[i])
              /\ Answers(i) /\ req'[i].resp.err # "StorageFailure") =>
                LET u == IntOf(req[i].token.sub)
                    A == req[i].token.access_token
                    A2 == req[i].new_token.access_token
                    R2 == req[i].new_token.refresh_token
                IN /\ req'[i].resp.err = "ok"
                   /\ req'[i].resp.access_token = A2
                   /\ req'[i].resp.refresh_token = R2
                   /\ DalExists(table, u, A) =>
                         /\ ~DalExists(table', u, A)
                         /\ Decrypt(DalGet(table', u, A2).refresh_token) = R2
                         /\ Len(table') = Len(table)]_vars

C7_Witness ==
    \E i \in Slots :
        /\ req[i].op = "refresh" /\ req[i].resp.err = "ok"
        /\ ExpiredOnArrival(req[i])
        /\ DalGet(table, IntOf(req[i].token.sub), req[i].resp.access_token) # NoRow
        /\ Decrypt(DalGet(table, IntOf(req[i].token.sub), req[i].resp.access_token).refresh_token)
              = req[i].resp.refresh_token

\* C8: the table never holds two rows for one (user_id, access_token).
C8_OneRecordPerKey ==
    \A k1, k2 \in 1..Len(table) :
        (k1 # k2) => ~Matches(table[k1], table[k2].user_id, table[k2].access_token)

\* Request i is a login that takes a step other than a successful commit.
LoginStepWithoutCommit(i) ==
    /\ req'[i] # req[i]
    /\ req'[i].op = "login"
    /\ req'[i].resp.err # "ok"

\* C9: a login whose insert, last-login update or commit fails is rolled
\* back and answered 500 without a token pair, and no step of a login other
\* than its successful commit changes the token table or the last-login
\* column: a pending insert never becomes visible.
C9_LoginAllOrNothing ==
    [][\A i \in Slots : LoginStepWithoutCommit(i) =>
          /\ table' = table
          /\ last_login' = last_login
          /\ (req[i].pc \in {"insert", "last_login", "commit"} /\ Answers(i)) =>
                /\ req'[i].resp.status = HTTP_500_INTERNAL_SERVER_ERROR
                /\ req'[i].resp.message = "Failed to select/insert data"
                /\ req'[i].resp.access_token = NoToken
                /\ req'[i].resp.refresh_token = NoToken
                /\ ~req'[i].resp.cookies
                /\ req'[i].session = "rolled_back"
                /\ req'[i].pending = <<>>]_vars

\* A login failed after its insert was pending (at the last-login update or
\* at the commit) and the table is still empty.
C9_Witness ==
    \E i \in Slots :
        /\ req[i].op = "login" /\ req[i].pc = "done"
        /\ req[i].resp.err = "StorageFailure"
        /\ req[i].new_token # NoPair
        /\ req[i].discarded >= 1
        /\ req[i].session = "rolled_back"
        /\ table = <<>>
        /\ \A j \in Slots \ {i} : req[j].op = "none"

\* C10: a login that authenticate refuses is answered 401 Unauthorized: no
\* pair is minted or returned, no cookie is set, nothing is written.
C10_BadCredentialsUnauthorized ==
    [][\A i \in Slots :
          (Arrives(i, "login") /\ ~req'[i].is_login /\ req'[i].resp.err # "Unhandled") =>
             /\ req'[i].pc = "done"
             /\ req'[i].resp.status = HTTP_401_UNAUTHORIZED
             /\ req'[i].resp.err = "Unauthorized"
             /\ req'[i].resp.access_token = NoToken
             /\ req'[i].resp.refresh_token = NoToken
             /\ ~req'[i].resp.cookies
             /\ req'[i].new_token = NoPair
             /\ req'[i].pending = <<>>
             /\ req'[i].session # "committed"
             /\ table' = table
             /\ last_login' = last_login]_vars

C10_Witness ==
    \E i \in Slots :
        /\ req[i].op = "login" /\ ~req[i].is_login
        /\ req[i].pc = "done" /\ req[i].resp.err = "Unauthorized"

\* The outcome a verifier gave request r, and the TokenUser built from the
\* access token a and the refresh token rt.
Outcome(r) == r.resp.err
TokenUser(a, rt) == [sub |-> a.sub, access_token |-> a, refresh_token |-> rt]

\* The credential of request r is missing or malformed for its transport: no
\* bearer header with a token, or a cookie pair or body with a value absent.
MissingCredential(r) ==
    IF r.flow = "AuthorizeTokenUser"
    THEN r.presented.scheme \notin {"Bearer", "bearer", "BEARER"} \/ r.presented.access_token = NoToken
    ELSE r.presented.access_token = NoToken \/ r.presented.refresh_token = NoToken

\* Request i arrives in this step as the evaluation of one of the verifiers vs.
Evaluates(i, vs) == Arrives(i, "verify") /\ req'[i].flow \in vs

\* C11: the strict verifiers (bearer header, cookie pair) end in exactly one
\* of three outcomes.  A missing or malformed credential (a cookie pair with a
\* value absent included), a bad signature or a claim that fails the schema
\* gives CredentialsInvalid; a present, validly signed token past its expiry
\* gives TokenExpired; anything else is Verified with the TokenUser of the
\* presented token.
C11_StrictVerifierOutcomes ==
    [][\A i \in Slots :
          Evaluates(i, {"AuthorizeTokenUser", "AuthorizeCookieUser"}) =>
             LET r == req'[i]
                 a == r.presented.access_token
                 signed == a.sig = "ok"
                 expired == a.exp < now
             IN /\ Outcome(r) \in {"CredentialsInvalid", "TokenExpired", "Verified"}
                /\ (MissingCredential(r) \/ ~signed) => Outcome(r) = "CredentialsInvalid"
                /\ (~MissingCredential(r) /\ signed /\ expired) => Outcome(r) = "TokenExpired"
                /\ (~MissingCredential(r) /\ signed /\ ~expired /\ a.claims # "ok")
                       => Outcome(r) = "CredentialsInvalid"
                /\ (~MissingCredential(r) /\ signed /\ ~expired /\ a.claims = "ok")
                       => /\ Outcome(r) = "Verified"
                          /\ r.token = TokenUser(a, r.presented.refresh_token)
                /\ (Outcome(r) # "Verified") => r.token = NoUser
                /\ (Outcome(r) = "CredentialsInvalid") => r.resp = credentials_exception
                /\ (Outcome(r) = "TokenExpired") => r.resp = token_expired_exception]_vars

\* The cookie verifier has refused a pair whose access token alone was valid
\* at that time, because the refresh cookie was absent.
C11_Witness ==
    \E i \in Slots :
        /\ req[i].op = "verify" /\ req[i].flow = "AuthorizeCookieUser"
        /\ req[i].presented.access_token.sig = "ok"
        /\ req[i].presented.access_token.claims = "ok"
        /\ req[i].presented.access_token.exp >= req[i].at
        /\ req[i].presented.refresh_token = NoToken
        /\ Outcome(req[i]) = "CredentialsInvalid"

\* C12: the lenient (refresh) verifiers never answer TokenExpired.  With both
\* values present, a validly signed, well-formed access token is Verified
\* before and after its expiry, and a bad signature or a corrupt claim gives
\* CredentialsInvalid.
C12_LenientVerifierIgnoresExpiry ==
    [][\A i \in Slots :
          Evaluates(i, {"AuthorizeRefreshCookieUser", "AuthorizeTokenRefresh"}) =>
             LET r == req'[i]
                 a == r.presented.access_token
             IN /\ Outcome(r) # "TokenExpired"
                /\ (~MissingCredential(r) /\ a.sig = "ok" /\ a.claims = "ok")
                       => /\ Outcome(r) = "Verified"
                          /\ r.token = TokenUser(a, r.presented.refresh_token)
                /\ (~MissingCredential(r) /\ (a.sig # "ok" \/ a.claims # "ok"))
                       => Outcome(r) = "CredentialsInvalid"]_vars

\* Both lenient verifiers can verify a token past its expiry; here one has.
C12_Witness ==
    \E i \in Slots :
        /\ req[i].op = "verify"
        /\ req[i].flow \in {"AuthorizeRefreshCookieUser", "AuthorizeTokenRefresh"}
        /\ req[i].presented.access_token.exp < req[i].at
        /\ Outcome(req[i]) = "Verified"

\* The pair that login j minted is presented to a strict verifier by request
\* i in this step, in a well-formed credential, before the access token's
\* expiry.
VerifiesIssued(i, j) ==
    /\ Evaluates(i, {"AuthorizeTokenUser", "AuthorizeCookieUser"})
    /\ req[j].op = "login" /\ req[j].new_token # NoPair
    /\ req'[i].presented.access_token = req[j].new_token.access_token
    /\ ~MissingCredential(req'[i])
    /\ now < req[j].new_token.access_token_expires_in

StorageFailed(i) ==
    Answers(i) /\ req'[i].resp.err \in {"StorageFailure", "Unhandled"}

\* C14: in every flow, a request whose storage operation fails has its
\* transaction rolled back before the error response is produced, the record
\* fetch of a refresh and the principal lookup of a login included.
C14_StorageFailureRollsBack ==
    [][\A i \in Slots : StorageFailed(i) =>
          /\ req'[i].session = "rolled_back"
          /\ req'[i].pending = <<>>]_vars

\* C15: every storage failure is answered 500, and 404 is answered only for
\* a token that is not found and for a refresh mismatch.
C15_StorageFailureIs500 ==
    [][\A i \in Slots :
          /\ (Answers(i) /\ req'[i].resp.err = "StorageFailure")
                => req'[i].resp.status = HTTP_500_INTERNAL_SERVER_ERROR
          /\ (Answers(i) /\ req'[i].resp.status = HTTP_404_NOT_FOUND)
                => req'[i].resp.err \in {"TokenNotFound", "CredentialsInvalid"}]_vars

\* C17: a web logout that succeeds answers 'logout success' and sets both
\* the access_token and the refresh_token cookie to the empty value with
\* max_age 0; a web logout that ends on the not-found or on a failure branch
\* does not answer success and sets no cookie.
C17_WebLogoutClearsCookies ==
    [][\A i \in Slots :
          (Answers(i) /\ req'[i].op = "logout" /\ req'[i].flow = "web") =>
             LET resp == req'[i].resp IN
             /\ (req[i].pc = "commit" /\ req'[i].session = "committed") =>
                   /\ resp.err = "ok" /\ resp.message = "logout success"
                   /\ resp.set_cookie =
                         {[key |-> k, value |-> NoToken, httponly |-> TRUE, max_age |-> 0] :
                             k \in {"access_token", "refresh_token"}}
             /\ (req'[i].session # "committed") =>
                   /\ resp.err # "ok" /\ resp.message # "logout success"
                   /\ resp.set_cookie = {}]_vars

\* A web logout has deleted a stored row and cleared the cookies.
C17_Witness ==
    \E i \in Slots :
        /\ req[i].op = "logout" /\ req[i].flow = "web" /\ req[i].pc = "done"
        /\ req[i].session = "committed"
        /\ ~DalExists(table, IntOf(req[i].token.sub), req[i].token.access_token)
        /\ \E c \in req[i].resp.set_cookie : c.max_age = 0

\* Request i arrives in this step as a logout whose access token is signed,
\* well-formed and past its expiry.
ExpiredLogout(i) ==
    /\ Arrives(i, "logout")
    /\ LET a == req'[i].presented.access_token
       IN a # NoToken /\ a.sig = "ok" /\ a.claims = "ok" /\ a.exp < now

\* C18: a logout with a validly signed access token past its expiry ends in
\* TokenExpired before any storage operation: no statement, no commit, and
\* the (user, access token) rows are as they were.
C18_ExpiredLogoutRejected ==
    [][\A i \in Slots : ExpiredLogout(i) =>
          LET a == req'[i].presented.access_token IN
          /\ req'[i].pc = "done"
          /\ req'[i].resp = token_expired_exception
          /\ req'[i].pending = <<>>
          /\ req'[i].session \notin {"committed", "rolled_back"}
          /\ table' = table
          /\ DalExists(table, IntOf(a.sub), a) => DalExists(table', IntOf(a.sub), a)]_vars

\* A logout was answered TokenExpired and the row of its access token is
\* still stored.
C18_Witness ==
    \E i \in Slots :
        /\ req[i].op = "logout" /\ req[i].pc = "done"
        /\ req[i].resp.err = "TokenExpired"
        /\ DalExists(table, IntOf(req[i].presented.access_token.sub),
                     req[i].presented.access_token)

\* The answered refresh request r passed the verifier and found no row for
\* its (user, access token).
HitMissingRecord(r) ==
    /\ r.op = "refresh" /\ r.pc = "done" /\ r.token # NoUser
    /\ r.resp.err # "Unhandled"
    /\ r.row = NoRow

\* The answered refresh request r passed the verifier and found a row whose
\* decrypted refresh token is not the presented one.
HitOtherRefreshToken(r) ==
    /\ r.op = "refresh" /\ r.pc = "done" /\ r.token # NoUser
    /\ r.row # NoRow
    /\ Decrypt(r.row.refresh_token) # r.token.refresh_token

\* C16: two refresh requests with the same verified access token, one that
\* finds no row and one that finds a row with another refresh token, get the
\* same response: error kind, status, message, body and cookies.
C16_RefreshFailuresIndistinguishable ==
    \A i, j \in Slots :
        (/\ HitMissingRecord(req[i]) /\ HitOtherRefreshToken(req[j])
         /\ req[i].token.access_token = req[j].token.access_token)
        => /\ req[i].resp.err = req[j].resp.err
           /\ req[i].resp.status = req[j].resp.status
           /\ req[i].resp.message = req[j].resp.message
           /\ req[i].resp = req[j].resp
           /\ req[i].new_token = NoPair /\ req[j].new_token = NoPair

C16_Witness ==
    \E i, j \in Slots :
        /\ HitMissingRecord(req[i]) /\ HitOtherRefreshToken(req[j])
        /\ req[i].token.access_token = req[j].token.access_token
        /\ req[i].resp.err = "CredentialsInvalid"

\* The rows of the table t that are not keyed by (user_id, access_token).
Others(t, user_id, access_token) ==
    SelectSeq(t, LAMBDA r : ~Matches(r, user_id, access_token))

C20_ExpiredRefreshTokenRejected ==
    [][\A i \in Slots : Succeeds(i, "refresh") =>
          /\ req[i].row.expires_at >= req[i].new_token.iat
          /\ req[i].token.refresh_token.exp >= req[i].new_token.iat]_vars

\* Request i has been answered by its handler: the verifier of the route let
\* it in and the handler returned or raised.  An answered request takes no
\* further step, so what its session is now it stays.
AnsweredByHandler(i) ==
    /\ req[i].op \in {"login", "logout", "refresh"}
    /\ req[i].pc = "done"
    /\ req[i].session # "none"

\* C21: every request that entered a login, logout or refresh handler ends
\* with its session closed, committed when the response is a success and
\* rolled back or without a statement when it is an error, the Unauthorized
\* path of login and the CredentialsInvalid path of refresh included; a
\* success is never answered without a commit.  (The paths on which a
\* storage call outside the try block raises are left out: they are C14's.)
C21_EveryRequestEndsClosed ==
    \A i \in Slots :
        (AnsweredByHandler(i) /\ req[i].resp.err # "Unhandled") =>
            /\ req[i].closed
            /\ (req[i].resp.err = "ok") => req[i].session = "committed"
            /\ (req[i].resp.err # "ok") =>
                  /\ req[i].session # "committed"
                  /\ req[i].pending = <<>>

====
